---- MODULE Spec2Model ----
(***************************************************************************)
(* ConcurrentPlusPlus: the Chase-Lev work-stealing deque                   *)
(* (include/async/deque.h, include/async/internal/buffer.h) and the        *)
(* thread pool built on it (include/async/threadpool.h).                   *)
(*                                                                         *)
(* Every atomic load, store and compare-exchange of the source is one      *)
(* step of the thread that performs it; reads of locations that only the   *)
(* reading thread writes are folded into the neighbouring step.  Memory is *)
(* sequentially consistent: every step reads the latest value written.     *)
(***************************************************************************)
EXTENDS Integers, Sequences, FiniteSets

(* ------------------------------ bounds --------------------------------- *)

\* log2 of the capacity a Deque is constructed with (the source's default
\* is 1024; a capacity must be a power of two)
CapBits == 0

\* number of push calls the owner of the stand-alone deque makes
MaxPush == 3

\* number of threads that call steal on the stand-alone deque
NThieves == 2

\* largest nthreads a ThreadPool is constructed with
MaxWorkers == 2

\* number of submit calls made on a ThreadPool
MaxTasks == 3

\* the worker's spin threshold (100 in the source), scaled down; spin_count
\* is kept only up to it, since the worker only compares it with the threshold
SpinLimit == 1

\* number of threads that call submit at the same time
NSubmitters == 2

\* number of threads that lock and unlock one Mutex
NLockers == 3

\* number of times each of them locks it
MaxLocks == 2

NoVal == 0

(* ------------------------------ state ---------------------------------- *)

VARIABLES
  top_,                \* Deque::top_, per deque
  bottom_,             \* Deque::bottom_, per deque
  buffer_,             \* Deque::buffer_: index into heap of the current buffer
  heap,                \* the CircularBuffer objects allocated by each deque
  discarded_buffers_,  \* Deque::discarded_buffers_, per deque
  opc,                 \* position of the owner (the pool's submitting thread)
  ol,                  \* the owner's locals
  pc,                  \* position of each thief (each worker of the pool, and
                       \* each thread calling submit beside the owner)
  loc,                 \* the locals of each of those threads
  pushed,              \* history: per deque, the values whose push completed
  returned,            \* history: per value, the calls that returned it
  script,              \* which program the owner of the stand-alone deque runs
  pending,             \* the tests' shared counter
  nworkers,            \* ThreadPool: the nthreads it was constructed with
  pending_task_count_, \* ThreadPool::pending_task_count_
  rotating_index_,     \* ThreadPool::rotating_index_
  sem,                 \* TaskQueue::sem of each queue: its count
  stop,                \* the stop state of each worker's jthread
  spin_count,          \* each worker's spin_count
  receiver,            \* history: per task, what its future was resolved with
  contention_          \* Mutex::contention_

vars == <<top_, bottom_, buffer_, heap, discarded_buffers_, opc, ol, pc, loc,
          pushed, returned, script, pending, nworkers, pending_task_count_,
          rotating_index_, sem, stop, spin_count, receiver, contention_>>

poolVars == <<nworkers, pending_task_count_, rotating_index_, sem, stop,
              spin_count, receiver>>

dequeVars == <<top_, bottom_, buffer_, heap, discarded_buffers_>>

(* --------------------------- CircularBuffer ---------------------------- *)

RECURSIVE BitAnd(_, _)
\* the & of two non-negative integers
BitAnd(a, b) ==
  IF a = 0 \/ b = 0 THEN 0
  ELSE (a % 2) * (b % 2) + 2 * BitAnd(a \div 2, b \div 2)

RECURSIVE Pow2(_)
Pow2(n) == IF n = 0 THEN 1 ELSE 2 * Pow2(n - 1)

\* CircularBuffer(capacity): the cells are value-initialised
CircularBuffer(c) ==
  [capacity |-> c, mask |-> c - 1,
   cells |-> [j \in 0 .. c - 1 |-> NoVal]]

\* CircularBuffer::get
Get(buf, index) == buf.cells[BitAnd(index, buf.mask)]

\* CircularBuffer::set
Set(buf, index, val) ==
  [buf EXCEPT !.cells[BitAnd(index, buf.mask)] = val]

RECURSIVE CopyRange(_, _, _, _)
\* the loop of expandAndCopy: for (i = start; i != end; i++) to.set(i, get(i))
CopyRange(from, to, i, end) ==
  IF i = end THEN to
  ELSE CopyRange(from, Set(to, i, Get(from, i)), i + 1, end)

\* expandAndCopy that allocates the new buffer and copies nothing
ExpandNoCopy(buf, start_inclusive, end_exclusive) ==
  CircularBuffer(2 * buf.capacity)

\* CircularBuffer::expandAndCopy
ExpandAndCopy(buf, start_inclusive, end_exclusive) ==
  CopyRange(buf, CircularBuffer(2 * buf.capacity), start_inclusive, end_exclusive)

(* ------------------------------- Deque --------------------------------- *)

InitCapacity == Pow2(CapBits)

\* a thief's locals; ok is has_value() of the optional steal returned, r its value
NoLocals ==
  [q |-> 0, top |-> 0, bottom |-> 0, buf |-> 0, t |-> NoVal, ok |-> FALSE, r |-> NoVal]

\* the owner's locals; i is the index of the destructor's loops
NoOwnerLocals == [q |-> 0, top |-> 0, bottom |-> 0, buf |-> 0, val |-> NoVal, i |-> 0]

\* Deque::Deque for each deque of Q
DequeInit(Q) ==
  /\ top_ = [q \in Q |-> 0]
  /\ bottom_ = [q \in Q |-> 0]
  /\ buffer_ = [q \in Q |-> 1]
  /\ heap = [q \in Q |-> <<CircularBuffer(InitCapacity)>>]
  /\ discarded_buffers_ = [q \in Q |-> <<>>]
  /\ pushed = [q \in Q |-> <<>>]

\* Deque::size
Size(b, t) == IF b >= t THEN b - t ELSE 0

\* push whose test for a full buffer is off by one
PushLoadLate(q, v) ==
  /\ ol' = [NoOwnerLocals EXCEPT !.q = q, !.val = v, !.bottom = bottom_[q],
                                 !.top = top_[q], !.buf = buffer_[q]]
  /\ opc' = IF bottom_[q] - top_[q] > heap[q][buffer_[q]].capacity
            THEN "push_grow" ELSE "push_set"
  /\ UNCHANGED dequeVars

\* push, lines 118-123: load bottom_, top_ and buffer_, test for a full buffer
PushLoad(q, v) ==
  /\ ol' = [NoOwnerLocals EXCEPT !.q = q, !.val = v, !.bottom = bottom_[q],
                                 !.top = top_[q], !.buf = buffer_[q]]
  /\ opc' = IF bottom_[q] - top_[q] > heap[q][buffer_[q]].capacity - 1
            THEN "push_grow" ELSE "push_set"
  /\ UNCHANGED dequeVars

\* a grow that deletes the buffer it replaces instead of retiring it: the
\* freed buffer has no cells left
PushGrowFreesOld ==
  /\ opc = "push_grow"
  /\ LET q == ol.q
         grown == ExpandAndCopy(heap[q][ol.buf], ol.top, ol.bottom) IN
       /\ heap' = [heap EXCEPT ![q] =
                     Append([@ EXCEPT ![ol.buf] = CircularBuffer(0)], grown)]
       /\ discarded_buffers_' = discarded_buffers_
       /\ buffer_' = [buffer_ EXCEPT ![q] = Len(heap[q]) + 1]
       /\ ol' = [ol EXCEPT !.buf = Len(heap[q]) + 1]
  /\ opc' = "push_set"
  /\ UNCHANGED <<top_, bottom_, pushed>>

\* push, lines 124-126: retire the buffer and publish the expanded copy
PushGrow ==
  /\ opc = "push_grow"
  /\ LET q == ol.q
         grown == ExpandAndCopy(heap[q][ol.buf], ol.top, ol.bottom) IN
       /\ heap' = [heap EXCEPT ![q] = Append(@, grown)]
       /\ discarded_buffers_' = [discarded_buffers_ EXCEPT ![q] = Append(@, ol.buf)]
       /\ buffer_' = [buffer_ EXCEPT ![q] = Len(heap[q]) + 1]
       /\ ol' = [ol EXCEPT !.buf = Len(heap[q]) + 1]
  /\ opc' = "push_set"
  /\ UNCHANGED <<top_, bottom_, pushed>>

\* a grow that retires the current buffer before it allocates the new one,
\* and whose allocation then fails
PushGrowFailsAfterRetire(next) ==
  /\ opc = "push_grow"
  /\ discarded_buffers_' = [discarded_buffers_ EXCEPT ![ol.q] = Append(@, ol.buf)]
  /\ ol' = [NoOwnerLocals EXCEPT !.q = ol.q]
  /\ opc' = next
  /\ UNCHANGED <<top_, bottom_, buffer_, heap, pushed>>

\* push, lines 124-125: expandAndCopy's new CircularBuffer (buffer.h:63), or
\* the emplace_back that follows it, throws std::bad_alloc.  The arguments of
\* emplace_back are evaluated before it runs and buffer_.store comes after
\* it, so the exception leaves push with nothing written
PushGrowFails(next) ==
  /\ opc = "push_grow"
  /\ discarded_buffers_' = discarded_buffers_
  /\ ol' = [NoOwnerLocals EXCEPT !.q = ol.q]
  /\ opc' = next
  /\ UNCHANGED <<top_, bottom_, buffer_, heap, pushed>>

\* push, line 133/136: buf->set(bottom, value)
PushSet ==
  /\ opc = "push_set"
  /\ heap' = [heap EXCEPT ![ol.q][ol.buf] = Set(@, ol.bottom, ol.val)]
  /\ opc' = "push_store"
  /\ UNCHANGED <<top_, bottom_, buffer_, discarded_buffers_, pushed, ol>>

\* push, lines 140-141: bottom_.store(bottom + 1); the push has returned
PushStore(next) ==
  /\ opc = "push_store"
  /\ bottom_' = [bottom_ EXCEPT ![ol.q] = ol.bottom + 1]
  /\ pushed' = [pushed EXCEPT ![ol.q] = Append(@, ol.val)]
  /\ opc' = next
  /\ UNCHANGED <<top_, buffer_, heap, discarded_buffers_>>

\* pop, lines 148-152: new_bottom = bottom_ - 1, load buffer_, store new_bottom
PopDecrement(q) ==
  /\ ol' = [NoOwnerLocals EXCEPT !.q = q, !.bottom = bottom_[q] - 1,
                                 !.buf = buffer_[q]]
  /\ bottom_' = [bottom_ EXCEPT ![q] = bottom_[q] - 1]
  /\ opc' = "pop_top"
  /\ UNCHANGED <<top_, buffer_, heap, discarded_buffers_, pushed>>

\* pop without the single-element case: the last element is read with no
\* compare-exchange
PopLoadTopNoContest ==
  /\ opc = "pop_top"
  /\ ol' = [ol EXCEPT !.top = top_[ol.q]]
  /\ opc' = IF top_[ol.q] <= ol.bottom THEN "pop_get" ELSE "pop_restore"
  /\ UNCHANGED <<dequeVars, pushed>>

\* pop, lines 156-162: load top_ and branch on it
PopLoadTop ==
  /\ opc = "pop_top"
  /\ ol' = [ol EXCEPT !.top = top_[ol.q]]
  /\ opc' = IF top_[ol.q] <= ol.bottom
            THEN IF top_[ol.q] = ol.bottom THEN "pop_cas" ELSE "pop_get"
            ELSE "pop_restore"
  /\ UNCHANGED <<dequeVars, pushed>>

\* pop's compare_exchange_strong without the comparison
PopCasBlind ==
  /\ opc = "pop_cas"
  /\ top_' = [top_ EXCEPT ![ol.q] = ol.top + 1]
  /\ opc' = "pop_won"
  /\ UNCHANGED <<bottom_, buffer_, heap, discarded_buffers_, pushed, ol>>

\* pop, line 163: top_.compare_exchange_strong(top, top + 1)
PopCas ==
  /\ opc = "pop_cas"
  /\ IF top_[ol.q] = ol.top
     THEN /\ top_' = [top_ EXCEPT ![ol.q] = ol.top + 1]
          /\ opc' = "pop_won"
     ELSE /\ top_' = top_
          /\ opc' = "pop_lost"
  /\ UNCHANGED <<bottom_, buffer_, heap, discarded_buffers_, pushed, ol>>

\* pop that took the last element without storing bottom_ back
PopWonNoStore ==
  /\ opc = "pop_won"
  /\ bottom_' = bottom_
  /\ opc' = "pop_get"
  /\ UNCHANGED <<top_, buffer_, heap, discarded_buffers_, pushed, ol>>

\* pop, line 167: bottom_.store(new_bottom + 1) after the exchange succeeded
PopWon ==
  /\ opc = "pop_won"
  /\ bottom_' = [bottom_ EXCEPT ![ol.q] = ol.bottom + 1]
  /\ opc' = "pop_get"
  /\ UNCHANGED <<top_, buffer_, heap, discarded_buffers_, pushed, ol>>

\* pop returning nullopt without storing bottom_ back
PopRestoreNoStore(next) ==
  /\ opc \in {"pop_lost", "pop_restore"}
  /\ bottom_' = bottom_
  /\ ol' = [NoOwnerLocals EXCEPT !.q = ol.q]
  /\ opc' = next
  /\ UNCHANGED <<top_, buffer_, heap, discarded_buffers_, pushed>>

\* pop, lines 164-165 and 184-185: bottom_.store(new_bottom + 1); return nullopt
PopRestore(next) ==
  /\ opc \in {"pop_lost", "pop_restore"}
  /\ bottom_' = [bottom_ EXCEPT ![ol.q] = ol.bottom + 1]
  /\ ol' = [NoOwnerLocals EXCEPT !.q = ol.q]
  /\ opc' = next
  /\ UNCHANGED <<top_, buffer_, heap, discarded_buffers_, pushed>>

\* pop reading the oldest element instead of the newest
PopValueAtTop == Get(heap[ol.q][ol.buf], ol.top)

\* pop, lines 171-181: buf->get(new_bottom) is the value returned
PopValue == Get(heap[ol.q][ol.buf], ol.bottom)

\* steal, line 193: load top_
StealLoadTop(self, q) ==
  /\ loc' = [loc EXCEPT ![self] = [NoLocals EXCEPT !.q = q, !.top = top_[q]]]
  /\ pc' = [pc EXCEPT ![self] = "steal_bottom"]

\* steal whose emptiness test is top <= bottom
StealLoadBottomLax(self) ==
  /\ pc[self] = "steal_bottom"
  /\ IF loc[self].top <= bottom_[loc[self].q]
     THEN /\ loc' = [loc EXCEPT ![self].bottom = bottom_[loc[self].q]]
          /\ pc' = [pc EXCEPT ![self] = "steal_buffer"]
     ELSE /\ loc' = [loc EXCEPT ![self] = [NoLocals EXCEPT !.q = loc[self].q]]
          /\ pc' = [pc EXCEPT ![self] = "steal_done"]

\* steal, lines 195-198 and 219: load bottom_; nullopt unless top < bottom
StealLoadBottom(self) ==
  /\ pc[self] = "steal_bottom"
  /\ IF loc[self].top < bottom_[loc[self].q]
     THEN /\ loc' = [loc EXCEPT ![self].bottom = bottom_[loc[self].q]]
          /\ pc' = [pc EXCEPT ![self] = "steal_buffer"]
     ELSE /\ loc' = [loc EXCEPT ![self] = [NoLocals EXCEPT !.q = loc[self].q]]
          /\ pc' = [pc EXCEPT ![self] = "steal_done"]

\* steal, line 200: buffer_.load(consume)
StealLoadBuffer(self) ==
  /\ pc[self] = "steal_buffer"
  /\ loc' = [loc EXCEPT ![self].buf = buffer_[loc[self].q]]
  /\ pc' = [pc EXCEPT ![self] = "steal_get"]

\* steal, line 200: ->get(top)
StealGet(self) ==
  /\ pc[self] = "steal_get"
  /\ loc' = [loc EXCEPT ![self].t = Get(heap[loc[self].q][loc[self].buf], loc[self].top)]
  /\ pc' = [pc EXCEPT ![self] = "steal_cas"]

\* steal ignoring the result of its compare_exchange_strong
StealCasUnchecked(self) ==
  /\ pc[self] = "steal_cas"
  /\ top_' = IF top_[loc[self].q] = loc[self].top
             THEN [top_ EXCEPT ![loc[self].q] = loc[self].top + 1] ELSE top_
  /\ returned' = [returned EXCEPT ![loc[self].t] = Append(@, "steal")]
  /\ loc' = [loc EXCEPT ![self] =
               [NoLocals EXCEPT !.q = loc[self].q, !.ok = TRUE, !.r = loc[self].t]]
  /\ pc' = [pc EXCEPT ![self] = "steal_done"]

\* steal's compare_exchange_strong without the comparison
StealCasBlind(self) ==
  /\ pc[self] = "steal_cas"
  /\ top_' = [top_ EXCEPT ![loc[self].q] = loc[self].top + 1]
  /\ returned' = [returned EXCEPT ![loc[self].t] = Append(@, "steal")]
  /\ loc' = [loc EXCEPT ![self] =
               [NoLocals EXCEPT !.q = loc[self].q, !.ok = TRUE, !.r = loc[self].t]]
  /\ pc' = [pc EXCEPT ![self] = "steal_done"]

\* steal, lines 204-216: compare_exchange_strong(top, top + 1); the element
\* read is returned on success, nullopt on failure.  What steal returns is
\* decided here, so the history records it here
StealCas(self) ==
  /\ pc[self] = "steal_cas"
  /\ IF top_[loc[self].q] = loc[self].top
     THEN /\ top_' = [top_ EXCEPT ![loc[self].q] = loc[self].top + 1]
          /\ returned' = [returned EXCEPT ![loc[self].t] = Append(@, "steal")]
          /\ loc' = [loc EXCEPT ![self] =
                       [NoLocals EXCEPT !.q = loc[self].q, !.ok = TRUE, !.r = loc[self].t]]
     ELSE /\ top_' = top_
          /\ returned' = returned
          /\ loc' = [loc EXCEPT ![self] = [NoLocals EXCEPT !.q = loc[self].q]]
  /\ pc' = [pc EXCEPT ![self] = "steal_done"]

(* ------------------- the stand-alone deque and its tests ---------------- *)

Thieves == 0 .. NThieves - 1

Vals == 1 .. MaxPush

\* the value the next push call stores: values are numbered in push order
NextVal == Len(pushed[0]) + 1

\* the owner calls push
OwnerPush ==
  /\ opc = "idle"
  /\ NextVal <= MaxPush
  /\ PushLoad(0, NextVal)
  /\ UNCHANGED <<pc, loc, pushed, returned, script, pending, poolVars,
                 contention_>>

OwnerPushGrow ==
  /\ PushGrow
  /\ UNCHANGED <<pc, loc, returned, script, pending, poolVars,
                 contention_>>

OwnerPushSet ==
  /\ PushSet
  /\ UNCHANGED <<pc, loc, returned, script, pending, poolVars,
                 contention_>>

OwnerPushStore ==
  /\ PushStore("idle")
  /\ UNCHANGED <<ol, pc, loc, returned, script, pending, poolVars,
                 contention_>>

\* the owner calls pop: at any time when its program is "free"; in
\* PopAgainstSteal (tests/deque_test.cpp:90-91) once everything is pushed
\* and while the counter is positive
OwnerPop ==
  /\ opc = "idle"
  /\ \/ script = "free"
     \/ script = "popsteal" /\ NextVal > MaxPush /\ pending > 0
  /\ PopDecrement(0)
  /\ UNCHANGED <<pc, loc, returned, script, pending, poolVars,
                 contention_>>

OwnerPopLoadTop ==
  /\ PopLoadTop
  /\ UNCHANGED <<pc, loc, returned, script, pending, poolVars,
                 contention_>>

OwnerPopCas ==
  /\ PopCas
  /\ UNCHANGED <<pc, loc, returned, script, pending, poolVars,
                 contention_>>

OwnerPopWon ==
  /\ PopWon
  /\ UNCHANGED <<pc, loc, returned, script, pending, poolVars,
                 contention_>>

\* pop returns nullopt: the loop of the test goes round
OwnerPopEmpty ==
  /\ PopRestore("idle")
  /\ UNCHANGED <<pc, loc, returned, script, pending, poolVars,
                 contention_>>

\* pop returns a value; the test decrements its counter (deque_test.cpp:92-95)
OwnerPopGet ==
  /\ opc = "pop_get"
  /\ returned' = [returned EXCEPT ![PopValue] = Append(@, "pop")]
  /\ pending' = pending - 1
  /\ ol' = [NoOwnerLocals EXCEPT !.top = ol.top, !.bottom = ol.bottom]
  /\ opc' = "idle"
  /\ UNCHANGED <<dequeVars, pc, loc, pushed, script, poolVars,
                 contention_>>

\* a thief calls steal: at any time when the program is "free", in the tests
\* while the counter is positive (deque_test.cpp:40-41, 80-81)
ThiefSteal(self) ==
  /\ pc[self] = "idle"
  /\ script = "free" \/ pending > 0
  /\ StealLoadTop(self, 0)
  /\ UNCHANGED <<dequeVars, opc, ol, pushed, returned, script, pending, poolVars,
                 contention_>>

\* the loop of the test ends when the counter is not positive
ThiefExit(self) ==
  /\ pc[self] = "idle"
  /\ script # "free" /\ pending <= 0
  /\ pc' = [pc EXCEPT ![self] = "joined"]
  /\ UNCHANGED <<dequeVars, opc, ol, loc, pushed, returned, script, pending, poolVars,
                 contention_>>

ThiefLoadBottom(self) ==
  /\ StealLoadBottom(self)
  /\ UNCHANGED <<dequeVars, opc, ol, pushed, returned, script, pending, poolVars,
                 contention_>>

ThiefLoadBuffer(self) ==
  /\ StealLoadBuffer(self)
  /\ UNCHANGED <<dequeVars, opc, ol, pushed, returned, script, pending, poolVars,
                 contention_>>

ThiefGet(self) ==
  /\ StealGet(self)
  /\ UNCHANGED <<dequeVars, opc, ol, pushed, returned, script, pending, poolVars,
                 contention_>>

ThiefCas(self) ==
  /\ StealCas(self)
  /\ UNCHANGED <<bottom_, buffer_, heap, discarded_buffers_, opc, ol, pushed,
                 script, pending, poolVars,
                 contention_>>

\* steal has returned; on a value the test decrements its counter
\* (deque_test.cpp:42-45)
ThiefDone(self) ==
  /\ pc[self] = "steal_done"
  /\ pending' = IF loc[self].ok THEN pending - 1 ELSE pending
  /\ loc' = [loc EXCEPT ![self] = NoLocals]
  /\ pc' = [pc EXCEPT ![self] = "idle"]
  /\ UNCHANGED <<dequeVars, opc, ol, pushed, returned, script, poolVars,
                 contention_>>

\* the test joins the thieves and checks its counter (deque_test.cpp:54-58,
\* 98-102); PushAgainstSteal does so right after the last push,
\* PopAgainstSteal when its pop loop has seen the counter at 0
OwnerJoin ==
  /\ opc = "idle"
  /\ script # "free"
  /\ NextVal > MaxPush
  /\ script = "pushsteal" \/ pending <= 0
  /\ \A t \in Thieves : pc[t] = "joined"
  /\ opc' = "done"
  /\ UNCHANGED <<dequeVars, ol, pc, loc, pushed, returned, script, pending, poolVars,
                 contention_>>

DequeInitWith(scripts) ==
  /\ DequeInit({0})
  /\ opc = "idle"
  /\ ol = NoOwnerLocals
  /\ pc = [t \in Thieves |-> "idle"]
  /\ loc = [t \in Thieves |-> NoLocals]
  /\ returned = [v \in {NoVal} \cup Vals |-> <<>>]
  /\ script \in scripts
  /\ pending = MaxPush
  /\ nworkers = 0
  /\ pending_task_count_ = 0
  /\ rotating_index_ = 0
  /\ sem = <<>>
  /\ stop = <<>>
  /\ spin_count = <<>>
  /\ receiver = <<>>
  /\ contention_ = 0

OwnerStep ==
  \/ OwnerPush \/ OwnerPushGrow \/ OwnerPushSet \/ OwnerPushStore
  \/ OwnerPop \/ OwnerPopLoadTop \/ OwnerPopCas \/ OwnerPopWon
  \/ OwnerPopEmpty \/ OwnerPopGet

ThiefStep(self) ==
  \/ ThiefSteal(self) \/ ThiefLoadBottom(self) \/ ThiefLoadBuffer(self)
  \/ ThiefGet(self) \/ ThiefCas(self) \/ ThiefDone(self)

DequeNext ==
  \/ OwnerPush \/ OwnerPushGrow \/ OwnerPushSet \/ OwnerPushStore
  \/ OwnerPop \/ OwnerPopLoadTop \/ OwnerPopCas \/ OwnerPopWon
  \/ OwnerPopEmpty \/ OwnerPopGet
  \/ \E self \in Thieves :
       \/ ThiefSteal(self) \/ ThiefLoadBottom(self) \/ ThiefLoadBuffer(self)
       \/ ThiefGet(self) \/ ThiefCas(self) \/ ThiefDone(self)

\* one owner calling push and pop in any order, thieves calling steal
DequeSpec == DequeInitWith({"free"}) /\ [][DequeNext]_vars

\* the allocation made by the grow fails: push throws to its caller
OwnerPushGrowFails ==
  /\ PushGrowFails("push_threw")
  /\ UNCHANGED <<pc, loc, returned, script, pending, poolVars,
                 contention_>>

\* the caller of push handles the exception and goes on using the deque
OwnerCatch ==
  /\ opc = "push_threw"
  /\ opc' = "idle"
  /\ UNCHANGED <<dequeVars, ol, pc, loc, pushed, returned, script, pending, poolVars,
                 contention_>>

AllocFailNext ==
  \/ OwnerPush \/ OwnerPushGrow \/ OwnerPushGrowFails \/ OwnerCatch
  \/ OwnerPushSet \/ OwnerPushStore
  \/ OwnerPop \/ OwnerPopLoadTop \/ OwnerPopCas \/ OwnerPopWon
  \/ OwnerPopEmpty \/ OwnerPopGet
  \/ \E self \in Thieves :
       \/ ThiefSteal(self) \/ ThiefLoadBottom(self) \/ ThiefLoadBuffer(self)
       \/ ThiefGet(self) \/ ThiefCas(self) \/ ThiefDone(self)

\* the deque with an allocator that can fail whenever push grows
AllocFailSpec == DequeInitWith({"free"}) /\ [][AllocFailNext]_vars

\* one call at a time, as in deque.SingleThreadedOperations: a call starts
\* only when no other call is in progress
SequentialNext ==
  \/ /\ \A t \in Thieves : pc[t] = "idle"
     /\ \/ OwnerPush \/ OwnerPushGrow \/ OwnerPushSet \/ OwnerPushStore
        \/ OwnerPop \/ OwnerPopLoadTop \/ OwnerPopCas \/ OwnerPopWon
        \/ OwnerPopEmpty \/ OwnerPopGet
  \/ \E self \in Thieves :
       /\ opc = "idle"
       /\ \A t \in Thieves \ {self} : pc[t] = "idle"
       /\ \/ ThiefSteal(self) \/ ThiefLoadBottom(self) \/ ThiefLoadBuffer(self)
          \/ ThiefGet(self) \/ ThiefCas(self) \/ ThiefDone(self)

\* push, pop and steal called one after the other, in any order
SequentialSpec == DequeInitWith({"free"}) /\ [][SequentialNext]_vars

DequeTestNext ==
  \/ OwnerPush \/ OwnerPushGrow \/ OwnerPushSet \/ OwnerPushStore
  \/ OwnerPop \/ OwnerPopLoadTop \/ OwnerPopCas \/ OwnerPopWon
  \/ OwnerPopEmpty \/ OwnerPopGet \/ OwnerJoin
  \/ \E self \in Thieves :
       \/ ThiefSteal(self) \/ ThiefLoadBottom(self) \/ ThiefLoadBuffer(self)
       \/ ThiefGet(self) \/ ThiefCas(self) \/ ThiefDone(self)
       \/ ThiefExit(self)

\* deque.PushAgainstSteal and deque.PopAgainstSteal: every thread is an OS
\* thread that keeps being scheduled
DequeTestSpec ==
  /\ DequeInitWith({"pushsteal", "popsteal"})
  /\ [][DequeTestNext]_vars
  /\ WF_vars(OwnerStep \/ OwnerJoin)
  /\ \A t \in Thieves : WF_vars(ThiefStep(t) \/ ThiefExit(t))

(* ----------------------------- ThreadPool ----------------------------- *)

Tasks == 1 .. MaxTasks

\* the ids a worker can have; the workers of a pool are those below nworkers
WorkerIds == 0 .. MaxWorkers - 1

Workers == 0 .. nworkers - 1

\* ThreadPool::ThreadPool(nthreads): the queues, and the workers about to wait
PoolInit ==
  /\ nworkers \in 1 .. MaxWorkers
  /\ DequeInit(0 .. nworkers - 1)
  /\ opc = "idle"
  /\ ol = NoOwnerLocals
  /\ pc = [w \in WorkerIds |-> IF w < nworkers THEN "wait" ELSE "none"]
  /\ loc = [w \in WorkerIds |-> NoLocals]
  /\ returned = [v \in {NoVal} \cup Tasks |-> <<>>]
  /\ script = "pool"
  /\ pending = 0
  /\ pending_task_count_ = 0
  /\ rotating_index_ = 0
  /\ sem = [q \in 0 .. nworkers - 1 |-> 0]
  /\ stop = [w \in 0 .. nworkers - 1 |-> FALSE]
  /\ spin_count = [w \in 0 .. nworkers - 1 |-> 0]
  /\ receiver = [k \in Tasks |-> <<>>]
  /\ contention_ = 0

\* the counting semaphore of async/sem.h: signal() adds one to the count
SemSignal(q) == [sem EXCEPT ![q] = @ + 1]

\* the counting semaphore: wait() returns once the count is positive
SemCanPass(q) == sem[q] > 0

\* the counting semaphore: wait() takes one from the count as it returns
SemWait(q) == [sem EXCEPT ![q] = @ - 1]

\* externalPush choosing its slot with ++rotating_index_
ExternalPushPreIncrement ==
  /\ opc = "idle"
  /\ rotating_index_ < MaxTasks
  /\ rotating_index_' = rotating_index_ + 1
  /\ pending_task_count_' = pending_task_count_ + 1
  /\ ol' = [NoOwnerLocals EXCEPT !.q = (rotating_index_ + 1) % nworkers,
                                 !.val = rotating_index_ + 1]
  /\ opc' = "push_call"
  /\ UNCHANGED <<dequeVars, pc, loc, pushed, returned, script, pending,
                 nworkers, sem, stop, spin_count, receiver,
                 contention_>>

\* externalPush, lines 224-225: slot = rotating_index_++ % queues_.size();
\* pending_task_count_.fetch_add(1).  Task k is the k-th submitted
ExternalPush ==
  /\ opc = "idle"
  /\ rotating_index_ < MaxTasks
  /\ rotating_index_' = rotating_index_ + 1
  /\ pending_task_count_' = pending_task_count_ + 1
  /\ ol' = [NoOwnerLocals EXCEPT !.q = rotating_index_ % nworkers,
                                 !.val = rotating_index_ + 1]
  /\ opc' = "push_call"
  /\ UNCHANGED <<dequeVars, pc, loc, pushed, returned, script, pending,
                 nworkers, sem, stop, spin_count, receiver,
                 contention_>>

\* externalPush, line 226: queues_[slot].dq.push(task)
SubmitPushLoad ==
  /\ opc = "push_call"
  /\ PushLoad(ol.q, ol.val)
  /\ UNCHANGED <<pc, loc, pushed, returned, script, pending, poolVars,
                 contention_>>

SubmitPushGrow ==
  /\ PushGrow
  /\ UNCHANGED <<pc, loc, returned, script, pending, poolVars,
                 contention_>>

SubmitPushSet ==
  /\ PushSet
  /\ UNCHANGED <<pc, loc, returned, script, pending, poolVars,
                 contention_>>

SubmitPushStore ==
  /\ PushStore("signal")
  /\ UNCHANGED <<ol, pc, loc, returned, script, pending, poolVars,
                 contention_>>

\* externalPush returning without the signal
SubmitNoSignal ==
  /\ opc = "signal"
  /\ sem' = sem
  /\ ol' = NoOwnerLocals
  /\ opc' = "idle"
  /\ UNCHANGED <<dequeVars, pc, loc, pushed, returned, script, pending,
                 nworkers, pending_task_count_, rotating_index_, stop,
                 spin_count, receiver,
                 contention_>>

\* externalPush, line 227: queues_[slot].sem.signal(); submit returns
SubmitSignal ==
  /\ opc = "signal"
  /\ sem' = SemSignal(ol.q)
  /\ ol' = NoOwnerLocals
  /\ opc' = "idle"
  /\ UNCHANGED <<dequeVars, pc, loc, pushed, returned, script, pending,
                 nworkers, pending_task_count_, rotating_index_, stop,
                 spin_count, receiver,
                 contention_>>

\* the pool goes out of scope: ~ThreadPool starts
DestructorStart ==
  /\ opc = "idle"
  /\ ol' = NoOwnerLocals
  /\ opc' = "dtor_stop"
  /\ UNCHANGED <<dequeVars, pc, loc, pushed, returned, script, pending, poolVars,
                 contention_>>

\* ~ThreadPool, lines 231-233: t.request_stop() for each thread
DestructorRequestStop ==
  /\ opc = "dtor_stop"
  /\ stop' = [stop EXCEPT ![ol.i] = TRUE]
  /\ IF ol.i + 1 < nworkers
     THEN /\ ol' = [ol EXCEPT !.i = ol.i + 1]
          /\ opc' = opc
     ELSE /\ ol' = NoOwnerLocals
          /\ opc' = "dtor_signal"
  /\ UNCHANGED <<dequeVars, pc, loc, pushed, returned, script, pending,
                 nworkers, pending_task_count_, rotating_index_, sem,
                 spin_count, receiver,
                 contention_>>

\* ~ThreadPool without its second loop
DestructorNoSignal ==
  /\ opc = "dtor_signal"
  /\ sem' = sem
  /\ ol' = NoOwnerLocals
  /\ opc' = "dtor_join"
  /\ UNCHANGED <<dequeVars, pc, loc, pushed, returned, script, pending,
                 nworkers, pending_task_count_, rotating_index_, stop,
                 spin_count, receiver,
                 contention_>>

\* ~ThreadPool, lines 234-236: d.sem.signal() for each queue
DestructorSignal ==
  /\ opc = "dtor_signal"
  /\ sem' = SemSignal(ol.i)
  /\ IF ol.i + 1 < nworkers
     THEN /\ ol' = [ol EXCEPT !.i = ol.i + 1]
          /\ opc' = opc
     ELSE /\ ol' = NoOwnerLocals
          /\ opc' = "dtor_join"
  /\ UNCHANGED <<dequeVars, pc, loc, pushed, returned, script, pending,
                 nworkers, pending_task_count_, rotating_index_, stop,
                 spin_count, receiver,
                 contention_>>

\* threads that are detached instead of joined
DestructorNoJoin ==
  /\ opc = "dtor_join"
  /\ opc' = "dtor_queues"
  /\ UNCHANGED <<dequeVars, ol, pc, loc, pushed, returned, script, pending, poolVars,
                 contention_>>

\* threads_ (line 201) is destroyed first: each jthread is joined
DestructorJoin ==
  /\ opc = "dtor_join"
  /\ \A w \in Workers : pc[w] = "exited"
  /\ opc' = "dtor_queues"
  /\ UNCHANGED <<dequeVars, ol, pc, loc, pushed, returned, script, pending, poolVars,
                 contention_>>

RECURSIVE DrainPops(_, _, _, _)
\* ~Deque, lines 226-228, with no other thread left: while (!empty()) pop();
\* the top, the bottom and the elements popped
DrainPops(buf, t, b, acc) ==
  IF Size(b, t) = 0 THEN [top |-> t, bottom |-> b, vals |-> acc]
  ELSE IF t < b - 1
       THEN DrainPops(buf, t, b - 1, Append(acc, Get(buf, b - 1)))
       ELSE DrainPops(buf, t + 1, b, Append(acc, Get(buf, b - 1)))

SeqRange(sq) == {sq[j] : j \in 1 .. Len(sq)}

\* ~Deque that frees the buffer without popping what is left
DestructorQueuesLeak ==
  /\ opc = "dtor_queues"
  /\ IF ol.i + 1 < nworkers
     THEN /\ ol' = [ol EXCEPT !.i = ol.i + 1]
          /\ opc' = opc
     ELSE /\ ol' = NoOwnerLocals
          /\ opc' = "done"
  /\ UNCHANGED <<dequeVars, pc, loc, pushed, returned, script, pending, poolVars,
                 contention_>>

\* queues_ (line 200) is destroyed next: ~Deque pops what is left, and each
\* task popped is destroyed without being invoked; its promise, never
\* satisfied, stores broken_promise in the shared state
DestructorQueues ==
  /\ opc = "dtor_queues"
  /\ LET q == ol.i
         d == DrainPops(heap[q][buffer_[q]], top_[q], bottom_[q], <<>>) IN
       /\ top_' = [top_ EXCEPT ![q] = d.top]
       /\ bottom_' = [bottom_ EXCEPT ![q] = d.bottom]
       /\ receiver' = [k \in Tasks |->
                         IF k \in SeqRange(d.vals) /\ receiver[k] = <<>>
                         THEN <<"broken_promise">> ELSE receiver[k]]
  /\ IF ol.i + 1 < nworkers
     THEN /\ ol' = [ol EXCEPT !.i = ol.i + 1]
          /\ opc' = opc
     ELSE /\ ol' = NoOwnerLocals
          /\ opc' = "done"
  /\ UNCHANGED <<buffer_, heap, discarded_buffers_, pc, loc, pushed, returned,
                 script, pending, nworkers, pending_task_count_,
                 rotating_index_, sem, stop, spin_count,
                 contention_>>

\* worker, lines 143-144: queues_[id].sem.wait(); spin_count = 0
WorkerWait(id) ==
  /\ pc[id] = "wait"
  /\ SemCanPass(id)
  /\ sem' = SemWait(id)
  /\ spin_count' = [spin_count EXCEPT ![id] = 0]
  /\ pc' = [pc EXCEPT ![id] = "slot"]
  /\ UNCHANGED <<dequeVars, opc, ol, loc, pushed, returned, script, pending,
                 nworkers, pending_task_count_, rotating_index_, stop, receiver,
                 contention_>>

\* spin_count++, kept up to the threshold
SpinNext(n) == IF n < SpinLimit THEN n + 1 ELSE n

\* worker, lines 148-152 with spin_count++ < 100: slot = id, and steal begins
WorkerSlotOwn(id) ==
  /\ pc[id] = "slot"
  /\ spin_count[id] < SpinLimit
  /\ spin_count' = [spin_count EXCEPT ![id] = SpinNext(@)]
  /\ StealLoadTop(id, id)
  /\ UNCHANGED <<dequeVars, opc, ol, pushed, returned, script, pending,
                 nworkers, pending_task_count_, rotating_index_, sem, stop,
                 receiver,
                 contention_>>

\* worker, line 148 past the threshold: queues_[id].dq.empty() loads bottom_
WorkerEmptyLoadBottom(id) ==
  /\ pc[id] = "slot"
  /\ ~(spin_count[id] < SpinLimit)
  /\ spin_count' = [spin_count EXCEPT ![id] = SpinNext(@)]
  /\ loc' = [loc EXCEPT ![id] = [NoLocals EXCEPT !.bottom = bottom_[id]]]
  /\ pc' = [pc EXCEPT ![id] = "empty_top"]
  /\ UNCHANGED <<dequeVars, opc, ol, pushed, returned, script, pending,
                 nworkers, pending_task_count_, rotating_index_, sem, stop,
                 receiver,
                 contention_>>

\* worker, lines 148-150: empty() loads top_; slot = id when the own queue is
\* not empty, else prng::next() % queues_.size(), here s
WorkerPickSlot(id, s) ==
  /\ pc[id] = "empty_top"
  /\ s < nworkers
  /\ IF Size(loc[id].bottom, top_[id]) # 0 THEN s = id ELSE TRUE
  /\ loc' = [loc EXCEPT ![id] = [NoLocals EXCEPT !.q = s]]
  /\ pc' = [pc EXCEPT ![id] = "steal_top"]
  /\ UNCHANGED <<dequeVars, opc, ol, pushed, returned, script, pending, poolVars,
                 contention_>>

WorkerStealLoadTop(id) ==
  /\ pc[id] = "steal_top"
  /\ StealLoadTop(id, loc[id].q)
  /\ UNCHANGED <<dequeVars, opc, ol, pushed, returned, script, pending, poolVars,
                 contention_>>

WorkerStealLoadBottom(id) ==
  /\ StealLoadBottom(id)
  /\ UNCHANGED <<dequeVars, opc, ol, pushed, returned, script, pending, poolVars,
                 contention_>>

WorkerStealLoadBuffer(id) ==
  /\ StealLoadBuffer(id)
  /\ UNCHANGED <<dequeVars, opc, ol, pushed, returned, script, pending, poolVars,
                 contention_>>

WorkerStealGet(id) ==
  /\ StealGet(id)
  /\ UNCHANGED <<dequeVars, opc, ol, pushed, returned, script, pending, poolVars,
                 contention_>>

WorkerStealCas(id) ==
  /\ StealCas(id)
  /\ UNCHANGED <<bottom_, buffer_, heap, discarded_buffers_, opc, ol, pushed,
                 script, pending, poolVars,
                 contention_>>

\* a worker that invokes the task it fetched without counting it
WorkerFetchedNoSub(id) ==
  /\ pc[id] = "steal_done"
  /\ pending_task_count_' = pending_task_count_
  /\ IF loc[id].ok
     THEN /\ loc' = [loc EXCEPT ![id] = [NoLocals EXCEPT !.ok = TRUE, !.r = loc[id].r]]
          /\ pc' = [pc EXCEPT ![id] = "invoke"]
     ELSE /\ loc' = [loc EXCEPT ![id] = NoLocals]
          /\ pc' = [pc EXCEPT ![id] = "check"]
  /\ UNCHANGED <<dequeVars, opc, ol, pushed, returned, script, pending,
                 nworkers, rotating_index_, sem, stop, spin_count, receiver,
                 contention_>>

\* worker, lines 152-153: on a fetched task pending_task_count_.fetch_sub(1)
WorkerFetched(id) ==
  /\ pc[id] = "steal_done"
  /\ IF loc[id].ok
     THEN /\ pending_task_count_' = pending_task_count_ - 1
          /\ loc' = [loc EXCEPT ![id] = [NoLocals EXCEPT !.ok = TRUE, !.r = loc[id].r]]
          /\ pc' = [pc EXCEPT ![id] = "invoke"]
     ELSE /\ pending_task_count_' = pending_task_count_
          /\ loc' = [loc EXCEPT ![id] = NoLocals]
          /\ pc' = [pc EXCEPT ![id] = "check"]
  /\ UNCHANGED <<dequeVars, opc, ol, pushed, returned, script, pending,
                 nworkers, rotating_index_, sem, stop, spin_count, receiver,
                 contention_>>

\* what a callable does: it returns, or it throws
Outcomes == {"value", "exception"}

\* Task::operator(), lines 91-102: the callable runs, then set_value, or
\* set_exception when it threw
TaskCall(k, outcome) == [receiver EXCEPT ![k] = Append(@, outcome)]

\* a task whose exception escapes into the worker routine and ends the thread
WorkerInvokeThrows(id) ==
  /\ pc[id] = "invoke"
  /\ \E outcome \in Outcomes :
       /\ receiver' = TaskCall(loc[id].r, outcome)
       /\ pc' = [pc EXCEPT ![id] = IF outcome = "exception" THEN "exited" ELSE "check"]
  /\ loc' = [loc EXCEPT ![id] = NoLocals]
  /\ UNCHANGED <<dequeVars, opc, ol, pushed, returned, script, pending,
                 nworkers, pending_task_count_, rotating_index_, sem, stop,
                 spin_count,
                 contention_>>

\* worker, line 154: std::invoke(std::move(*fetched_task))
WorkerInvoke(id) ==
  /\ pc[id] = "invoke"
  /\ \E outcome \in Outcomes : receiver' = TaskCall(loc[id].r, outcome)
  /\ loc' = [loc EXCEPT ![id] = NoLocals]
  /\ pc' = [pc EXCEPT ![id] = "check"]
  /\ UNCHANGED <<dequeVars, opc, ol, pushed, returned, script, pending,
                 nworkers, pending_task_count_, rotating_index_, sem, stop,
                 spin_count,
                 contention_>>

\* a worker whose inner loop makes a single pass
WorkerCheckPendingOnce(id) ==
  /\ pc[id] = "check"
  /\ pc' = [pc EXCEPT ![id] = "stop"]
  /\ UNCHANGED <<dequeVars, opc, ol, loc, pushed, returned, script, pending, poolVars,
                 contention_>>

\* worker, line 158: while (pending_task_count_.load() > 0)
WorkerCheckPending(id) ==
  /\ pc[id] = "check"
  /\ pc' = [pc EXCEPT ![id] = IF pending_task_count_ > 0 THEN "slot" ELSE "stop"]
  /\ UNCHANGED <<dequeVars, opc, ol, loc, pushed, returned, script, pending, poolVars,
                 contention_>>

\* worker, line 160: while (!token.stop_requested())
WorkerCheckStop(id) ==
  /\ pc[id] = "stop"
  /\ pc' = [pc EXCEPT ![id] = IF stop[id] THEN "exited" ELSE "wait"]
  /\ UNCHANGED <<dequeVars, opc, ol, loc, pushed, returned, script, pending, poolVars,
                 contention_>>

WorkerStep(id) ==
  \/ WorkerWait(id) \/ WorkerSlotOwn(id) \/ WorkerEmptyLoadBottom(id)
  \/ (\E s \in WorkerIds : WorkerPickSlot(id, s)) \/ WorkerStealLoadTop(id)
  \/ WorkerStealLoadBottom(id) \/ WorkerStealLoadBuffer(id)
  \/ WorkerStealGet(id) \/ WorkerStealCas(id) \/ WorkerFetched(id)
  \/ WorkerInvoke(id) \/ WorkerCheckPending(id) \/ WorkerCheckStop(id)

PoolNext ==
  \/ ExternalPush \/ SubmitPushLoad \/ SubmitPushGrow \/ SubmitPushSet
  \/ SubmitPushStore \/ SubmitSignal \/ DestructorStart
  \/ DestructorRequestStop \/ DestructorSignal \/ DestructorJoin
  \/ DestructorQueues
  \/ \E id \in WorkerIds :
       \/ WorkerWait(id) \/ WorkerSlotOwn(id) \/ WorkerEmptyLoadBottom(id)
       \/ (\E s \in WorkerIds : WorkerPickSlot(id, s)) \/ WorkerStealLoadTop(id)
       \/ WorkerStealLoadBottom(id) \/ WorkerStealLoadBuffer(id)
       \/ WorkerStealGet(id) \/ WorkerStealCas(id) \/ WorkerFetched(id)
       \/ WorkerInvoke(id) \/ WorkerCheckPending(id) \/ WorkerCheckStop(id)

\* one thread constructing a pool, submitting and destroying it; the workers
PoolSpec == PoolInit /\ [][PoolNext]_vars

\* what the submitting thread does once inside submit or the destructor
MainProgress ==
  \/ SubmitPushLoad \/ SubmitPushGrow \/ SubmitPushSet \/ SubmitPushStore
  \/ SubmitSignal \/ DestructorRequestStop \/ DestructorSignal
  \/ DestructorJoin \/ DestructorQueues

\* every thread is an OS thread that keeps being scheduled; the caller is free
\* never to submit again and never to destroy the pool
PoolLiveSpec ==
  /\ PoolInit
  /\ [][PoolNext]_vars
  /\ WF_vars(MainProgress)
  /\ \A id \in WorkerIds : WF_vars(WorkerStep(id))

\* and moreover a worker that draws its victim again and again draws every
\* queue (prng::next() % queues_.size())
PoolFairSpec ==
  /\ PoolLiveSpec
  /\ \A id \in WorkerIds : \A s \in WorkerIds : SF_vars(WorkerPickSlot(id, s))

(* ------------------- submit called from several threads ----------------- *)

\* the threads that call submit concurrently, numbered after the workers
Submitters == MaxWorkers .. MaxWorkers + NSubmitters - 1

\* the task a submitter submits
TaskOf(s) == s - MaxWorkers + 1

\* a pool just constructed, and the submitters about to call submit once each
ConcurrentInit ==
  /\ nworkers \in 1 .. MaxWorkers
  /\ DequeInit(0 .. nworkers - 1)
  /\ opc = "idle"
  /\ ol = NoOwnerLocals
  /\ pc = [w \in WorkerIds \cup Submitters |->
             IF w \in Submitters THEN "submit"
             ELSE IF w < nworkers THEN "wait" ELSE "none"]
  /\ loc = [w \in WorkerIds \cup Submitters |-> NoLocals]
  /\ returned = [v \in {NoVal} \cup Tasks |-> <<>>]
  /\ script = "pool"
  /\ pending = 0
  /\ pending_task_count_ = 0
  /\ rotating_index_ = 0
  /\ sem = [q \in 0 .. nworkers - 1 |-> 0]
  /\ stop = [w \in 0 .. nworkers - 1 |-> FALSE]
  /\ spin_count = [w \in 0 .. nworkers - 1 |-> 0]
  /\ receiver = [k \in Tasks |-> <<>>]
  /\ contention_ = 0

\* externalPush, line 224: rotating_index_++ reads the plain (non-atomic)
\* member; r holds the value read, t the task being submitted
SubmitterLoadRotor(s) ==
  /\ pc[s] = "submit"
  /\ loc' = [loc EXCEPT ![s] = [NoLocals EXCEPT !.r = rotating_index_, !.t = TaskOf(s)]]
  /\ pc' = [pc EXCEPT ![s] = "rotor_store"]
  /\ UNCHANGED <<dequeVars, opc, ol, pushed, returned, script, pending, poolVars,
                 contention_>>

\* externalPush, line 224: rotating_index_++ writes the value read plus one;
\* slot = the value read % queues_.size()
SubmitterStoreRotor(s) ==
  /\ pc[s] = "rotor_store"
  /\ rotating_index_' = loc[s].r + 1
  /\ loc' = [loc EXCEPT ![s].q = loc[s].r % nworkers]
  /\ pc' = [pc EXCEPT ![s] = "fetch_add"]
  /\ UNCHANGED <<dequeVars, opc, ol, pushed, returned, script, pending,
                 nworkers, pending_task_count_, sem, stop, spin_count, receiver,
                 contention_>>

\* externalPush, line 225: pending_task_count_.fetch_add(1)
SubmitterFetchAdd(s) ==
  /\ pc[s] = "fetch_add"
  /\ pending_task_count_' = pending_task_count_ + 1
  /\ pc' = [pc EXCEPT ![s] = "push_bottom"]
  /\ UNCHANGED <<dequeVars, opc, ol, loc, pushed, returned, script, pending,
                 nworkers, rotating_index_, sem, stop, spin_count, receiver,
                 contention_>>

\* push, line 118: bottom_.load()
SubmitterPushLoadBottom(s) ==
  /\ pc[s] = "push_bottom"
  /\ loc' = [loc EXCEPT ![s].bottom = bottom_[loc[s].q]]
  /\ pc' = [pc EXCEPT ![s] = "push_top"]
  /\ UNCHANGED <<dequeVars, opc, ol, pushed, returned, script, pending, poolVars,
                 contention_>>

\* push, line 119: top_.load()
SubmitterPushLoadTop(s) ==
  /\ pc[s] = "push_top"
  /\ loc' = [loc EXCEPT ![s].top = top_[loc[s].q]]
  /\ pc' = [pc EXCEPT ![s] = "push_buffer"]
  /\ UNCHANGED <<dequeVars, opc, ol, pushed, returned, script, pending, poolVars,
                 contention_>>

\* push, lines 120-123: buffer_.load(), and the test for a full buffer
SubmitterPushLoadBuffer(s) ==
  /\ pc[s] = "push_buffer"
  /\ loc' = [loc EXCEPT ![s].buf = buffer_[loc[s].q]]
  /\ pc' = [pc EXCEPT ![s] =
              IF loc[s].bottom - loc[s].top > heap[loc[s].q][buffer_[loc[s].q]].capacity - 1
              THEN "push_grow" ELSE "push_set"]
  /\ UNCHANGED <<dequeVars, opc, ol, pushed, returned, script, pending, poolVars,
                 contention_>>

\* push, lines 124-126: retire the buffer and publish the expanded copy
SubmitterPushGrow(s) ==
  /\ pc[s] = "push_grow"
  /\ LET q == loc[s].q
         grown == ExpandAndCopy(heap[q][loc[s].buf], loc[s].top, loc[s].bottom) IN
       /\ heap' = [heap EXCEPT ![q] = Append(@, grown)]
       /\ discarded_buffers_' = [discarded_buffers_ EXCEPT ![q] = Append(@, loc[s].buf)]
       /\ buffer_' = [buffer_ EXCEPT ![q] = Len(heap[q]) + 1]
       /\ loc' = [loc EXCEPT ![s].buf = Len(heap[q]) + 1]
  /\ pc' = [pc EXCEPT ![s] = "push_set"]
  /\ UNCHANGED <<top_, bottom_, opc, ol, pushed, returned, script, pending, poolVars,
                 contention_>>

\* push, line 136: buf->set(bottom, task)
SubmitterPushSet(s) ==
  /\ pc[s] = "push_set"
  /\ heap' = [heap EXCEPT ![loc[s].q][loc[s].buf] = Set(@, loc[s].bottom, loc[s].t)]
  /\ pc' = [pc EXCEPT ![s] = "push_store"]
  /\ UNCHANGED <<top_, bottom_, buffer_, discarded_buffers_, opc, ol, loc,
                 pushed, returned, script, pending, poolVars,
                 contention_>>

\* push, lines 140-141: bottom_.store(bottom + 1)
SubmitterPushStore(s) ==
  /\ pc[s] = "push_store"
  /\ bottom_' = [bottom_ EXCEPT ![loc[s].q] = loc[s].bottom + 1]
  /\ pushed' = [pushed EXCEPT ![loc[s].q] = Append(@, loc[s].t)]
  /\ pc' = [pc EXCEPT ![s] = "signal"]
  /\ UNCHANGED <<top_, buffer_, heap, discarded_buffers_, opc, ol, loc,
                 returned, script, pending, poolVars,
                 contention_>>

\* externalPush, line 227: queues_[slot].sem.signal(); submit returns
SubmitterSignal(s) ==
  /\ pc[s] = "signal"
  /\ sem' = SemSignal(loc[s].q)
  /\ loc' = [loc EXCEPT ![s] = NoLocals]
  /\ pc' = [pc EXCEPT ![s] = "returned"]
  /\ UNCHANGED <<dequeVars, opc, ol, pushed, returned, script, pending,
                 nworkers, pending_task_count_, rotating_index_, stop,
                 spin_count, receiver,
                 contention_>>

ConcurrentNext ==
  \/ \E s \in Submitters :
       \/ SubmitterLoadRotor(s) \/ SubmitterStoreRotor(s) \/ SubmitterFetchAdd(s)
       \/ SubmitterPushLoadBottom(s) \/ SubmitterPushLoadTop(s)
       \/ SubmitterPushLoadBuffer(s) \/ SubmitterPushGrow(s)
       \/ SubmitterPushSet(s) \/ SubmitterPushStore(s) \/ SubmitterSignal(s)
  \/ \E id \in WorkerIds :
       \/ WorkerWait(id) \/ WorkerSlotOwn(id) \/ WorkerEmptyLoadBottom(id)
       \/ (\E s \in WorkerIds : WorkerPickSlot(id, s)) \/ WorkerStealLoadTop(id)
       \/ WorkerStealLoadBottom(id) \/ WorkerStealLoadBuffer(id)
       \/ WorkerStealGet(id) \/ WorkerStealCas(id) \/ WorkerFetched(id)
       \/ WorkerInvoke(id) \/ WorkerCheckPending(id) \/ WorkerCheckStop(id)

\* several threads calling submit once each on a live pool; the workers
ConcurrentSpec == ConcurrentInit /\ [][ConcurrentNext]_vars

(* -------------------------------- Mutex --------------------------------- *)

\* the threads that share the mutex
Lockers == 0 .. NLockers - 1

\* a Mutex whose contention_ is 0 and whose sem_ has count 0, and threads
\* that have not yet locked it; r counts the lock calls a thread has made
\* and t is what its last fetch_add returned
MutexInit ==
  /\ DequeInit({})
  /\ opc = "idle"
  /\ ol = NoOwnerLocals
  /\ pc = [t \in Lockers |-> "unlocked"]
  /\ loc = [t \in Lockers |-> NoLocals]
  /\ returned = [v \in {NoVal} |-> <<>>]
  /\ script = "mutex"
  /\ pending = 0
  /\ nworkers = 0
  /\ pending_task_count_ = 0
  /\ rotating_index_ = 0
  /\ sem = [m \in {0} |-> 0]
  /\ stop = <<>>
  /\ spin_count = <<>>
  /\ receiver = <<>>
  /\ contention_ = 0

\* lock whose test is fetch_add(1) > 1
MutexLockLax(t) ==
  /\ pc[t] = "unlocked"
  /\ loc[t].r < MaxLocks
  /\ contention_' = contention_ + 1
  /\ loc' = [loc EXCEPT ![t].r = @ + 1, ![t].t = contention_]
  /\ pc' = [pc EXCEPT ![t] = IF contention_ > 1 THEN "lock_wait" ELSE "critical"]
  /\ UNCHANGED <<dequeVars, opc, ol, pushed, returned, script, pending, poolVars>>

\* lock, line 15: contention_.fetch_add(1) > 0 decides between waiting on
\* the semaphore and returning at once
MutexLock(t) ==
  /\ pc[t] = "unlocked"
  /\ loc[t].r < MaxLocks
  /\ contention_' = contention_ + 1
  /\ loc' = [loc EXCEPT ![t].r = @ + 1, ![t].t = contention_]
  /\ pc' = [pc EXCEPT ![t] = IF contention_ > 0 THEN "lock_wait" ELSE "critical"]
  /\ UNCHANGED <<dequeVars, opc, ol, pushed, returned, script, pending, poolVars>>

\* lock, line 16: sem_.wait() returns; lock returns
MutexLockWait(t) ==
  /\ pc[t] = "lock_wait"
  /\ SemCanPass(0)
  /\ sem' = SemWait(0)
  /\ pc' = [pc EXCEPT ![t] = "critical"]
  /\ UNCHANGED <<dequeVars, opc, ol, loc, pushed, returned, script, pending,
                 nworkers, pending_task_count_, rotating_index_, stop,
                 spin_count, receiver, contention_>>

\* unlock, line 21: contention_.fetch_sub(1) > 1 decides whether to signal
MutexUnlock(t) ==
  /\ pc[t] = "critical"
  /\ contention_' = contention_ - 1
  /\ pc' = [pc EXCEPT ![t] = IF contention_ > 1 THEN "unlock_signal" ELSE "unlocked"]
  /\ UNCHANGED <<dequeVars, opc, ol, loc, pushed, returned, script, pending, poolVars>>

\* unlock, line 22: sem_.signal(); unlock returns
MutexUnlockSignal(t) ==
  /\ pc[t] = "unlock_signal"
  /\ sem' = SemSignal(0)
  /\ pc' = [pc EXCEPT ![t] = "unlocked"]
  /\ UNCHANGED <<dequeVars, opc, ol, loc, pushed, returned, script, pending,
                 nworkers, pending_task_count_, rotating_index_, stop,
                 spin_count, receiver, contention_>>

MutexNext ==
  \E t \in Lockers :
    \/ MutexLock(t) \/ MutexLockWait(t) \/ MutexUnlock(t) \/ MutexUnlockSignal(t)

\* threads that each alternate lock() and unlock() on one Mutex
MutexSpec == MutexInit /\ [][MutexNext]_vars

(* ------------------------------ claims --------------------------------- *)

\* C1: with one owner calling push and pop and thieves calling steal, no
\* pushed element is returned by more than one successful pop or steal.
C1_ReturnedAtMostOnce == \A v \in Vals : Len(returned[v]) <= 1

\* a pop and a steal have both returned an element of the same deque
C1_Witness ==
  \E v, w \in Vals : returned[v] = <<"pop">> /\ returned[w] = <<"steal">>

\* C2: in the tests, with K elements pushed and the takers retrying until
\* the counter (initially K) is 0, every loop ends, the counter is exactly 0
\* and each pushed element has been returned exactly once, nothing else.
C2_NoLoss ==
  <>[](/\ opc = "done"
       /\ \A t \in Thieves : pc[t] = "joined"
       /\ pending = 0
       /\ \A v \in Vals : Len(returned[v]) = 1
       /\ returned[NoVal] = <<>>)

\* PopAgainstSteal has finished with elements taken by the owner and by a thief
C2_Witness ==
  /\ opc = "done"
  /\ script = "popsteal"
  /\ \E v, w \in Vals : returned[v] = <<"pop">> /\ returned[w] = <<"steal">>

\* the calls that have v as their result: those recorded, and a pop that is
\* about to read it
TakersOf(v) ==
  Len(returned[v]) + (IF opc = "pop_get" /\ PopValue = v THEN 1 ELSE 0)

\* C4: when pop finds a single element (top = new_bottom) and goes through
\* the compare-exchange, then as it comes out of it top = bottom and exactly one
\* call, the pop or one steal, has the element; no call ever shares an element.
C4_SingleElementRace ==
  [][/\ (opc \in {"pop_won", "pop_lost"} /\ opc' # opc) =>
          /\ top_'[0] = bottom_'[0]
          /\ \E v \in Vals : v = Get(heap[0][ol.buf], ol.bottom) /\ TakersOf(v)' = 1
     /\ \A v \in Vals : TakersOf(v)' <= 1]_vars

\* the pop lost the last element to one thief while another thief that read
\* the same top has still to try its compare-exchange
C4_Witness ==
  /\ opc = "pop_lost"
  /\ \E t \in Thieves : pc[t] = "steal_cas" /\ loc[t].top = ol.top
  /\ \E t \in Thieves : pc[t] = "steal_done" /\ loc[t].ok

SetMax(S) == CHOOSE x \in S : \A y \in S : y <= x

SetMin(S) == CHOOSE x \in S : \A y \in S : x <= y

\* the elements pushed and not yet taken (values are numbered in push order)
Available == {v \in Vals : v <= Len(pushed[0]) /\ returned[v] = <<>>}

\* C8: a successful pop returns the most recently pushed element not yet
\* taken, a successful steal the least recently pushed one.
C8_PopNewestStealOldest ==
  [][\A v \in {NoVal} \cup Vals :
       returned'[v] # returned[v] =>
         /\ Available # {}
         /\ v = IF opc = "pop_get" /\ opc' # opc
                THEN SetMax(Available) ELSE SetMin(Available)]_vars

\* with two elements stored, a pop took the newer one and then a steal the older
C8_Witness ==
  /\ Len(pushed[0]) = 2
  /\ returned[2] = <<"pop">>
  /\ returned[1] = <<"steal">>
  /\ bottom_[0] = 1

\* the tasks submitted so far
Submitted == 1 .. rotating_index_

Invoked(k) == receiver[k] # <<>> /\ receiver[k][1] \in Outcomes

\* C3: every task submitted before the destructor starts has been invoked by
\* the time the destructor returns; no future holds a broken promise.
C3_AllInvokedAtDestruction ==
  opc = "done" => \A k \in Submitted : Invoked(k)

\* C5: no task is obtained by more than one steal, and none is invoked twice.
C5_NeverInvokedTwice ==
  \A k \in Tasks :
    /\ Len(returned[k]) <= 1
    /\ Cardinality({j \in 1 .. Len(receiver[k]) : receiver[k][j] \in Outcomes}) <= 1
    /\ Cardinality({w \in WorkerIds : pc[w] = "invoke" /\ loc[w].r = k})
         + Cardinality({j \in 1 .. Len(receiver[k]) : receiver[k][j] \in Outcomes}) <= 1

\* a task has been invoked while another worker, having read the same
\* element, has still to try its compare-exchange
C5_Witness ==
  \E k \in Tasks :
    /\ Invoked(k)
    /\ \E w \in WorkerIds : pc[w] = "steal_cas" /\ loc[w].t = k

PoolAlive ==
  opc \in {"idle", "push_call", "push_grow", "push_set", "push_store", "signal"}

\* C6: while the pool is alive, every task submitted is eventually invoked:
\* no worker stays parked while a task waits in a queue.
C6_EventuallyInvoked ==
  \A k \in Tasks : (k \in Submitted) ~> (Invoked(k) \/ ~PoolAlive)

\* all the tasks have been invoked, the pool is alive, every worker is parked
C6_Witness ==
  /\ PoolAlive
  /\ nworkers = MaxWorkers
  /\ \A k \in Tasks : Invoked(k)
  /\ \A w \in Workers : pc[w] = "wait"

\* C7: the destructor always terminates: once started, every worker leaves
\* its loop and is joined, and the destructor returns.
C7_DestructorTerminates == (opc = "dtor_stop") ~> (opc = "done")

\* the destructor has returned after submissions
C7_Witness ==
  /\ opc = "done"
  /\ rotating_index_ = MaxTasks
  /\ \A w \in Workers : pc[w] = "exited"

\* C9: every receiver is resolved at most once at any time, and exactly once
\* when the destructor has returned: with the callable's value or exception
\* if a worker took the task, with broken_promise if it was still queued.
C9_ResolvedExactlyOnce ==
  /\ \A k \in Tasks : Len(receiver[k]) <= 1
  /\ opc = "done" =>
       \A k \in Submitted :
         /\ Len(receiver[k]) = 1
         /\ returned[k] # <<>> => receiver[k][1] \in Outcomes
         /\ returned[k] = <<>> => receiver[k][1] = "broken_promise"

\* the destructor has returned with one task run, one that threw, one dropped
C9_Witness ==
  /\ opc = "done"
  /\ \E k \in Tasks : receiver[k] = <<"value">>
  /\ \E k \in Tasks : receiver[k] = <<"exception">>
  /\ \E k \in Tasks : receiver[k] = <<"broken_promise">>

\* C10: after the destructor returns no worker is running, and every task a
\* worker stole has finished its invocation.
C10_StolenTasksCompleted ==
  opc \in {"dtor_queues", "done"} =>
    /\ \A w \in Workers : pc[w] = "exited"
    /\ \A k \in Tasks : returned[k] # <<>> => Invoked(k)

\* the destructor of a two-worker pool has returned with a task invoked and
\* another one dropped from its queue
C10_Witness ==
  /\ opc = "done"
  /\ nworkers = 2
  /\ \E k \in Tasks : Invoked(k)
  /\ \E k \in Tasks : receiver[k] = <<"broken_promise">>

\* the tasks stored in queue q: the cells at the indices from top to bottom
StoredIn(q) ==
  {Get(heap[q][buffer_[q]], i) : i \in top_[q] .. bottom_[q] - 1}

\* the submit call of s has returned
SubmitReturned(s) == pc[s] = "returned"

\* C11: for any interleaving of two concurrent submit calls both tasks are
\* stored (each is in a queue until a worker steals it), each is invoked at
\* most once, and pending_task_count_ is 0 once both have been stolen and the
\* workers have counted them.
C11_ConcurrentSubmit ==
  (\A s \in Submitters : SubmitReturned(s)) =>
    /\ \A s \in Submitters :
         \/ returned[TaskOf(s)] # <<>>
         \/ \E q \in Workers : TaskOf(s) \in StoredIn(q)
    /\ \A k \in Tasks : Len(receiver[k]) <= 1
    /\ ((\A q \in Workers : Size(bottom_[q], top_[q]) = 0)
          /\ (\A w \in Workers : pc[w] # "steal_done"))
         => pending_task_count_ = 0

\* no submit call is in progress (neither the owner's nor one of a concurrent
\* submitter) and no queue has been destroyed
SubmittersQuiet ==
  /\ opc \in {"idle", "dtor_stop", "dtor_signal", "dtor_join"}
  /\ \A s \in Submitters \cap DOMAIN pc : pc[s] = "returned"

\* the tasks whose submit call has been made
SubmittedTasks ==
  IF Submitters \cap DOMAIN pc = {} THEN Submitted
  ELSE {TaskOf(s) : s \in Submitters \cap DOMAIN pc}

\* every queue is empty and every steal that took a task has been counted
QueuesDrained ==
  /\ \A q \in Workers : Size(bottom_[q], top_[q]) = 0
  /\ \A w \in Workers : ~(pc[w] = "steal_done" /\ loc[w].ok)

\* C12: once the submitting threads have stopped submitting and the workers
\* have drained every queue, pending_task_count_ is 0; and it is 0 no later
\* than the completion of the last invoked task.
C12_PendingZeroAfterDrain ==
  SubmittersQuiet =>
    /\ QueuesDrained => pending_task_count_ = 0
    /\ (\A k \in SubmittedTasks : Invoked(k)) => pending_task_count_ = 0

\* the owner's pop call returns in this step
PopReturns == opc \in {"pop_get", "pop_lost", "pop_restore"} /\ opc' = "idle"

\* the steal call of t reaches its result in this step
StealReturns(t) == pc[t] \in {"steal_bottom", "steal_cas"} /\ pc'[t] = "steal_done"

\* C13: with one call at a time, on a deque holding the single element x (an
\* empty deque, then push(x)) pop returns x and steal returns x; on an empty
\* deque pop and steal return empty.
C13_PushPopRoundTrip ==
  [][/\ \A x \in Vals : Available = {x} =>
          /\ PopReturns => returned'[x] = <<"pop">>
          /\ \A t \in Thieves : StealReturns(t) =>
               loc'[t].ok /\ loc'[t].r = x /\ returned'[x] = <<"steal">>
     /\ Available = {} =>
          /\ PopReturns => opc # "pop_get" /\ returned' = returned
          /\ \A t \in Thieves : StealReturns(t) =>
               ~loc'[t].ok /\ returned' = returned]_vars

\* the calls of the test have been made: pop on the empty deque, push, pop,
\* steal on the empty deque, push, steal
C13_Witness ==
  /\ opc = "idle"
  /\ Len(pushed[0]) = 2
  /\ returned[1] = <<"pop">>
  /\ returned[2] = <<"steal">>
  /\ top_[0] = 2 /\ bottom_[0] = 2
  /\ \E t \in Thieves : pc[t] = "steal_done" /\ loc[t].r = 2

\* the owner's pop call starts in this step
PopBegins == opc = "idle" /\ opc' = "pop_top"

\* a step of a pop call or of a steal call
PopOrStealStep ==
  \/ PopBegins
  \/ opc \in {"pop_top", "pop_cas", "pop_won", "pop_lost", "pop_restore", "pop_get"}
       /\ opc' # opc
  \/ \E t \in Thieves : pc'[t] # pc[t]

\* C14: pop and steal calls on an empty deque return empty and have no side
\* effect on top or bottom that another thread can observe: no step of such a
\* call changes the value of top_ or of bottom_.
C14_EmptyCallsInvisible ==
  [][(Available = {} /\ PopOrStealStep) =>
       /\ returned' = returned
       /\ top_' = top_
       /\ bottom_' = bottom_]_vars

\* C14 as amended: pop and steal calls on an empty deque return empty and
\* never change top_; steal never writes bottom_; pop stores bottom - 1 as it
\* starts, a value other threads read, and stores the former value back
\* before it returns.
C14_EmptyCallsRestore ==
  [][/\ (\E t \in Thieves : pc'[t] # pc[t]) => bottom_' = bottom_
     /\ (Available = {} /\ PopOrStealStep) =>
          /\ returned' = returned
          /\ top_' = top_
          /\ PopReturns => opc # "pop_get"
          /\ \A t \in Thieves : StealReturns(t) => ~loc'[t].ok
          /\ opc = "idle" => bottom_[0] = top_[0]
          /\ PopBegins => bottom_'[0] = bottom_[0] - 1
          /\ PopReturns => bottom_'[0] = top_'[0]
          /\ (~PopBegins /\ ~PopReturns) => bottom_' = bottom_]_vars

\* the owner is inside a second pop call on the emptied deque, bottom_ is one
\* below top_, and a thief that has loaded top_ is about to load bottom_
C14_Witness ==
  /\ Available = {}
  /\ Len(pushed[0]) = 1
  /\ opc = "pop_restore"
  /\ bottom_[0] = top_[0] - 1
  /\ \E t \in Thieves : pc[t] = "steal_bottom"

\* worker w invokes a task in this step and the callable throws
Throws(w) ==
  /\ pc[w] = "invoke"
  /\ pc'[w] # pc[w]
  /\ receiver'[loc[w].r] = Append(receiver[loc[w].r], "exception")

\* C15: a task whose callable throws delivers the exception to its own
\* receiver only; the worker that invoked it goes on with its loop, every
\* other task submitted is still invoked and pending_task_count_ still
\* reaches 0 (while the pool is alive).
C15_ExceptionIsolated ==
  /\ [][\A w \in WorkerIds : Throws(w) =>
          /\ pc' = [pc EXCEPT ![w] = "check"]
          /\ \A j \in Tasks \ {loc[w].r} : receiver'[j] = receiver[j]
          /\ UNCHANGED <<dequeVars, pending_task_count_, sem, stop>>]_vars
  /\ \A j \in Tasks :
       (j \in Submitted /\ \E k \in Tasks \ {j} : receiver[k] = <<"exception">>)
         ~> (Invoked(j) \/ ~PoolAlive)
  /\ (\E k \in Tasks : receiver[k] = <<"exception">>)
       ~> (pending_task_count_ = 0 \/ ~PoolAlive)

\* the only worker of a pool invoked a task that threw, and then another task
C15_Witness ==
  /\ PoolAlive
  /\ nworkers = 1
  /\ receiver[1] = <<"exception">>
  /\ receiver[2] = <<"value">>
  /\ pending_task_count_ = 0

\* C16: when the allocation in grow fails, push throws and the deque is as it
\* was: top, bottom, the current buffer with its capacity and cells, and the
\* retired list are unchanged; and the deque stays usable: whenever the owner
\* is between calls the cells from top to bottom hold exactly the elements
\* pushed and not yet taken, which pop and steal go on returning in order.
C16_GrowFailureLeavesDeque ==
  /\ [][(opc = "push_grow" /\ opc' = "push_threw") =>
          /\ UNCHANGED <<top_, bottom_, buffer_, discarded_buffers_, pushed>>
          /\ heap'[0][buffer_'[0]] = heap[0][buffer_[0]]]_vars
  /\ [](opc \in {"idle", "push_threw"} =>
          /\ StoredIn(0) = Available
          /\ bottom_[0] - top_[0] = Cardinality(Available)
          /\ Len(discarded_buffers_[0]) + 1 = Len(heap[0])
          /\ buffer_[0] = Len(heap[0]))
  /\ C8_PopNewestStealOldest

\* a push that had to grow has thrown with two elements stored, and the
\* deque, at capacity 2, has been through a successful grow before
C16_Witness ==
  /\ opc = "push_threw"
  /\ bottom_[0] - top_[0] = 2
  /\ heap[0][buffer_[0]].capacity = 2

\* the push call stores bottom_ and returns in this step
PushReturns == opc = "push_store" /\ opc' # opc

\* ol.bottom is pop's new_bottom: bottom_ was ol.bottom + 1 when pop started
BottomAtPopStart == ol.bottom + 1

\* C17: push raises bottom by exactly 1, steal never writes it, and when a pop
\* call has returned bottom is not lower than it was when the call started.
C17_BottomRestoredByPop ==
  [][/\ PushReturns => bottom_'[0] = bottom_[0] + 1
     /\ (\E t \in Thieves : pc'[t] # pc[t]) => bottom_' = bottom_
     /\ PopReturns => bottom_'[0] >= BottomAtPopStart]_vars

\* C17 as amended: push raises bottom by exactly 1 and steal never writes it;
\* bottom goes down only in the first step of pop, by 1; a pop that returns
\* empty or takes the last element leaves bottom as it was when the call
\* started, and a pop that returns an element while others remain leaves
\* it one lower.
C17_BottomAfterPop ==
  [][/\ PushReturns => bottom_'[0] = bottom_[0] + 1
     /\ (\E t \in Thieves : pc'[t] # pc[t]) => bottom_' = bottom_
     /\ bottom_'[0] < bottom_[0] => PopBegins /\ bottom_'[0] = bottom_[0] - 1
     /\ PopReturns =>
          bottom_'[0] = IF opc = "pop_get" /\ ol.top < ol.bottom
                        THEN BottomAtPopStart - 1 ELSE BottomAtPopStart]_vars

\* of three elements pushed the owner has popped the newest: bottom_ is 2
C17_Witness ==
  /\ opc = "idle"
  /\ Len(pushed[0]) = 3
  /\ returned[3] = <<"pop">>
  /\ returned[2] = <<>>
  /\ bottom_[0] = 2

\* the calls that have taken v: those that returned it, and a pop that has
\* won or read it and is about to return it
TakenBy(v) ==
  Len(returned[v])
    + (IF opc \in {"pop_won", "pop_get"} /\ PopValue = v THEN 1 ELSE 0)

\* this step is a successful compare-exchange on top_, in steal or in pop
TopCasSucceeds ==
  \/ opc = "pop_cas" /\ opc' = "pop_won"
  \/ \E t \in Thieves : pc[t] = "steal_cas" /\ pc'[t] = "steal_done" /\ loc'[t].ok

\* C18: top never decreases: every change of top is an increase by exactly 1
\* made by a successful compare-exchange in steal or in pop's single-element
\* case, and with each one exactly one element is taken; push never writes top.
C18_TopIncreasesByCas ==
  [][/\ top_'[0] >= top_[0]
     /\ top_' # top_ =>
          /\ top_'[0] = top_[0] + 1
          /\ TopCasSucceeds
          /\ \E v \in Vals :
               /\ TakenBy(v)' = TakenBy(v) + 1
               /\ \A w \in Vals \ {v} : TakenBy(w)' = TakenBy(w)
     /\ TopCasSucceeds => top_'[0] = top_[0] + 1]_vars

\* top_ is 2: a steal took the first element and the pop of the second,
\* then the only one left, won its compare-exchange
C18_Witness ==
  /\ opc = "idle"
  /\ Len(pushed[0]) = 2
  /\ returned[1] = <<"steal">>
  /\ returned[2] = <<"pop">>
  /\ top_[0] = 2

\* C19: in every state in which the owner has no push or pop in progress,
\* top <= bottom and bottom - top <= the capacity of the current buffer,
\* whatever steals are in progress.
C19_SizeWithinCapacity ==
  opc = "idle" =>
    /\ top_[0] <= bottom_[0]
    /\ bottom_[0] - top_[0] <= heap[0][buffer_[0]].capacity

\* the owner is between calls, the buffer is full at capacity 2, and a
\* steal is about to try its compare-exchange
C19_Witness ==
  /\ opc = "idle"
  /\ heap[0][buffer_[0]].capacity = 2
  /\ bottom_[0] - top_[0] = 2
  /\ \E t \in Thieves : pc[t] = "steal_cas"

\* the capacity of the current buffer
Capacity == heap[0][buffer_[0]].capacity

\* C20: push grows exactly when bottom - top has reached the capacity; the
\* new current buffer has twice the capacity and at every index from top to
\* bottom the element of the old one, which is left as it was and appended to
\* the retired list; the capacity never decreases; the store of the new
\* element overwrites no element that has not been taken; and with no
\* removals there is exactly one grow per doubling.
C20_GrowDoublesAndCopies ==
  /\ [][/\ (opc = "idle" /\ opc' \in {"push_grow", "push_set"}) =>
             (opc' = "push_grow" <=> bottom_[0] - top_[0] = Capacity)
        /\ (opc = "push_grow" /\ opc' = "push_set") =>
             /\ Capacity' = 2 * Capacity
             /\ \A i \in ol.top .. ol.bottom - 1 :
                  Get(heap'[0][buffer_'[0]], i) = Get(heap[0][buffer_[0]], i)
             /\ heap'[0][buffer_[0]] = heap[0][buffer_[0]]
             /\ discarded_buffers_'[0] = Append(discarded_buffers_[0], buffer_[0])
        /\ buffer_' # buffer_ => (opc = "push_grow" /\ opc' = "push_set")
        /\ Capacity' >= Capacity
        /\ (opc = "push_set" /\ opc' = "push_store") =>
             \A v \in Available :
               \E i \in top_[0] .. bottom_[0] - 1 :
                  Get(heap'[0][buffer_'[0]], i) = v]_vars
  /\ [](/\ Capacity = InitCapacity * Pow2(Len(discarded_buffers_[0]))
        /\ (opc = "idle" /\ \A v \in Vals : returned[v] = <<>>) =>
             /\ Len(pushed[0]) <= Capacity
             /\ Capacity > InitCapacity => Capacity < 2 * Len(pushed[0]))

\* three pushes and no removal: the buffer has grown twice, from 1 to 4,
\* and holds the three elements
C20_Witness ==
  /\ opc = "idle"
  /\ Len(pushed[0]) = 3
  /\ \A v \in Vals : returned[v] = <<>>
  /\ Len(discarded_buffers_[0]) = 2
  /\ Capacity = 4
  /\ StoredIn(0) = {1, 2, 3}

\* buffer i of the deque is allocated and has not been freed: it has the
\* capacity it was created with
Allocated(i) ==
  /\ i \in 1 .. Len(heap[0])
  /\ heap[0][i].capacity = InitCapacity * Pow2(i - 1)

\* C21: while the deque is alive every retired buffer stays allocated, so a
\* steal that interleaves with a grow reads an allocated buffer; and when
\* such a steal's compare-exchange on top succeeds, the value it read, from
\* the retired or from the new buffer, is the element stored at that index:
\* the oldest element pushed and not yet taken.
C21_RetiredBuffersKept ==
  /\ [](/\ \A i \in 1 .. Len(heap[0]) : Allocated(i)
        /\ discarded_buffers_[0] = [i \in 1 .. Len(heap[0]) - 1 |-> i]
        /\ buffer_[0] = Len(heap[0])
        /\ \A t \in Thieves :
             pc[t] \in {"steal_get", "steal_cas"} => Allocated(loc[t].buf))
  /\ [][\A t \in Thieves :
          (pc[t] = "steal_cas" /\ pc'[t] = "steal_done" /\ loc'[t].ok) =>
            /\ loc'[t].r = loc[t].t
            /\ loc[t].t = Get(heap[0][buffer_[0]], loc[t].top)
            /\ Available # {}
            /\ loc[t].t = SetMin(Available)]_vars

\* a steal read its element from a buffer that has since been retired and its
\* compare-exchange is about to succeed
C21_Witness ==
  \E t \in Thieves :
    /\ pc[t] = "steal_cas"
    /\ loc[t].buf < buffer_[0]
    /\ loc[t].top = top_[0]
    /\ loc[t].t # NoVal

\* the positions of the submitting thread inside Deque::push
InPush == opc \in {"push_call", "push_grow", "push_set", "push_store"}

\* the fields of queue q that a push writes
QueueOf(q) == <<bottom_[q], buffer_[q], heap[q], discarded_buffers_[q]>>

\* C22: with a single submitting thread and N workers the k-th submit call
\* (k = 0, 1, ...) targets queue k mod N and, in this order, increments
\* pending_task_count_, pushes the task onto that queue and signals that
\* queue's semaphore once; it touches no other queue and no other semaphore.
C22_SubmitRoundRobin ==
  /\ [][/\ (opc = "idle" /\ opc' = "push_call") =>
             /\ ol'.q = rotating_index_ % nworkers
             /\ ol'.val = rotating_index_ + 1
             /\ pending_task_count_' = pending_task_count_ + 1
             /\ UNCHANGED <<dequeVars, pushed, sem>>
        /\ (InPush /\ opc' # opc) =>
             /\ opc' \in {"push_grow", "push_set", "push_store", "signal"}
             /\ UNCHANGED <<top_, sem, pending_task_count_, rotating_index_>>
             /\ ol'.q = ol.q
             /\ \A q \in Workers \ {ol.q} :
                  QueueOf(q)' = QueueOf(q) /\ pushed'[q] = pushed[q]
        /\ (opc = "push_store" /\ opc' = "signal") =>
             /\ bottom_'[ol.q] = bottom_[ol.q] + 1
             /\ Get(heap[ol.q][buffer_[ol.q]], bottom_[ol.q]) = ol.val
             /\ pushed'[ol.q] = Append(pushed[ol.q], ol.val)
        /\ (opc = "signal" /\ opc' # opc) =>
             /\ opc' = "idle"
             /\ sem' = [sem EXCEPT ![ol.q] = sem[ol.q] + 1]
             /\ UNCHANGED <<dequeVars, pushed, pending_task_count_, rotating_index_>>
        /\ \A q \in Workers :
             /\ sem'[q] > sem[q] =>
                  \/ opc = "signal" /\ q = ol.q
                  \/ opc = "dtor_signal" /\ q = ol.i
             /\ pushed'[q] # pushed[q] => (opc = "push_store" /\ q = ol.q)]_vars
  /\ [](\A q \in Workers : \A j \in 1 .. Len(pushed[q]) :
          (pushed[q][j] - 1) % nworkers = q)

\* three submit calls on a pool of two workers have returned: the first and
\* the third pushed onto queue 0, the second onto queue 1
C22_Witness ==
  /\ opc = "idle"
  /\ nworkers = 2
  /\ pushed[0] = <<1, 3>>
  /\ pushed[1] = <<2>>

\* the number of fetch_add(1) made on pending_task_count_: one per submit
\* call that has got past threadpool.h:225
IncrementsDone ==
  IF Submitters \cap DOMAIN pc = {} THEN rotating_index_
  ELSE Cardinality({s \in Submitters :
                      pc[s] \notin {"submit", "rotor_store", "fetch_add"}})

RECURSIVE SumLen(_, _)
\* the number of successful steals of the tasks 1 .. k
SumLen(f, k) == IF k = 0 THEN 0 ELSE Len(f[k]) + SumLen(f, k - 1)

\* the number of fetch_sub(1) made: one per successful steal, less the steals
\* whose worker has not yet reached threadpool.h:153
DecrementsDone ==
  SumLen(returned, MaxTasks)
    - Cardinality({w \in Workers : pc[w] = "steal_done" /\ loc[w].ok})

\* C23: pending_task_count_ is never negative and always equals the number
\* of submissions whose increment has happened minus the number of
\* successful steals whose decrement has happened; so whenever it is 0
\* every queue is empty.
C23_PendingAccounting ==
  /\ pending_task_count_ >= 0
  /\ pending_task_count_ = IncrementsDone - DecrementsDone
  /\ pending_task_count_ = 0 =>
       \A q \in Workers : bottom_[q] = top_[q]

\* every task has been submitted and stolen, the last steal has been
\* counted and its task is about to be invoked: the counter is 0
C23_Witness ==
  /\ rotating_index_ = MaxTasks
  /\ pending_task_count_ = 0
  /\ \E w \in Workers : pc[w] = "invoke"
  /\ \E q \in Workers : top_[q] > 1

\* C24: a worker leaves its inner loop only in the step that reads
\* pending_task_count_ <= 0; a failed steal takes it to that read, and while
\* the read finds the count positive it goes round again; it goes back to its
\* semaphore or terminates only from the check that follows the inner loop,
\* and terminates only if the stop signal is set at that check.
C24_LeavesLoopOnZero ==
  [][\A w \in Workers :
       /\ (pc'[w] = "stop" /\ pc[w] # "stop") =>
            pc[w] = "check" /\ pending_task_count_ <= 0
       /\ (pc[w] = "check" /\ pc'[w] # pc[w] /\ pending_task_count_ > 0) =>
            pc'[w] = "slot"
       /\ (pc[w] = "steal_done" /\ ~loc[w].ok /\ pc'[w] # pc[w]) =>
            pc'[w] = "check"
       /\ (pc'[w] = "wait" /\ pc[w] # "wait") => pc[w] = "stop" /\ ~stop[w]
       /\ (pc'[w] = "exited" /\ pc[w] # "exited") => pc[w] = "stop" /\ stop[w]]_vars

\* no task has been stolen yet, the count is positive, and a worker whose
\* steal on its own empty queue failed is back at the top of its inner loop
C24_Witness ==
  /\ \A k \in Tasks : returned[k] = <<>>
  /\ pending_task_count_ > 0
  /\ \E w \in Workers :
       /\ pc[w] = "slot"
       /\ spin_count[w] = SpinLimit
       /\ bottom_[w] = top_[w]

\* the threads at position p
At(p) == {t \in Lockers : pc[t] = p}

\* C25: with contention_ and the semaphore starting at 0 and threads that
\* alternate lock() and unlock(), at most one thread is between the return
\* of its lock() and the start of its unlock(); and an unlock() made while
\* other threads are blocked in lock() releases exactly one of them: it
\* signals once, and each signal lets one waiting thread through.
C25_MutualExclusion ==
  /\ [](/\ Cardinality(At("critical")) <= 1
        /\ contention_ = Cardinality(At("critical")) + Cardinality(At("lock_wait"))
        /\ Cardinality(At("critical")) + Cardinality(At("unlock_signal")) + sem[0]
             = IF contention_ > 0 THEN 1 ELSE 0)
  /\ [][\A t \in Lockers :
          /\ (pc[t] = "critical" /\ pc'[t] # pc[t]) =>
               pc'[t] = IF At("lock_wait") # {} THEN "unlock_signal" ELSE "unlocked"
          /\ (pc[t] = "unlock_signal" /\ pc'[t] # pc[t]) =>
               /\ sem'[0] = sem[0] + 1
               /\ At("lock_wait") # {}
          /\ (pc[t] = "lock_wait" /\ pc'[t] # pc[t]) =>
               /\ pc'[t] = "critical"
               /\ sem[0] = 1 /\ sem'[0] = 0]_vars

\* a thread that found the mutex taken holds it after an unlock released
\* it, while another thread is still blocked in lock()
C25_Witness ==
  /\ \E t \in Lockers : pc[t] = "critical" /\ loc[t].t > 0
  /\ \E t \in Lockers : pc[t] = "lock_wait"
  /\ sem[0] = 0
====
